---- MODULE Spec2Model ----
(***************************************************************************)
(* Model of movie_recommender.py: the Recommender engine.                  *)
(*                                                                         *)
(* Text is modelled as sequences of code points, so that str.lower(),      *)
(* int(), float() and string comparison are computed rather than assumed.  *)
(* A raw line of a file is a sequence of "|"-separated fields; a field is  *)
(* [lpad, core, rpad]: lpad whitespace characters, the text core (which    *)
(* neither starts nor ends with whitespace and holds no "|"), and rpad     *)
(* whitespace characters.  Whitespace runs are kept as counts so that the  *)
(* 2000-character limit of the loaders can be reached.                     *)
(*                                                                         *)
(* A rating value is kept in tenths (4.5 is 45); the ratings drawn are     *)
(* multiples of 0.5, for which the float sums of the code are exact and    *)
(* s1/c1 = s2/c2 as floats exactly when the fractions are equal, so an     *)
(* average is kept as the pair (sum, count) and compared as a fraction.    *)
(*                                                                         *)
(* Spec runs the loaders on files of a few lines.  SpecBulk applies        *)
(* recommend_movies to a genre of about FetchLimit rated movies: such a    *)
(* state is kept in `bulk` as the sizes recommend_movies depends on, not   *)
(* as maps of ten thousand entries.                                        *)
(***************************************************************************)
EXTENDS Integers, Sequences, FiniteSets, TLC

VARIABLES movies_by_id, movies_by_name, genre_lookup, ratings, load_stats, call,
          bulk

vars == <<movies_by_id, movies_by_name, genre_lookup, ratings, load_stats, call, bulk>>

\* ---------------------------------------------------------------- bounds
MaxLines == 2          \* lines of one source file
MaxRatingLines == 3    \* rating lines processed since the last catalog load
MaxN == 3              \* largest n / k passed to a query
BulkSlack == 3         \* a bulk genre has FetchLimit -/+ BulkSlack rated movies

\* ------------------------------------------------------- program constants
MaxLineLen == 2000
FetchLimit == 10000

\* ------------------------------------------------------------------ text
Empty == << >>

F(lpad, core, rpad) == [lpad |-> lpad, core |-> core, rpad |-> rpad]

RECURSIVE SumLens(_, _)
SumLens(line, i) ==
    IF i > Len(line) THEN 0
    ELSE line[i].lpad + Len(line[i].core) + line[i].rpad + SumLens(line, i + 1)

\* len(raw): the fields and the delimiters between them
RawLen(line) == SumLens(line, 1) + (Len(line) - 1)

\* whitespace that raw.strip() removes at the front and at the back
LeadWs(line) ==
    IF line[1].core = Empty THEN line[1].lpad + line[1].rpad ELSE line[1].lpad

TrailWs(line) ==
    LET l == line[Len(line)]
    IN  IF l.core = Empty THEN l.lpad + l.rpad ELSE l.rpad

\* len(raw.strip())
StrippedLen(line) ==
    IF Len(line) = 1 /\ line[1].core = Empty THEN 0
    ELSE RawLen(line) - LeadWs(line) - TrailWs(line)

\* [p.strip() for p in line.split("|")]
Parts(line) == [i \in 1..Len(line) |-> line[i].core]

\* all(parts)
AllParts(parts) == \A i \in 1..Len(parts) : parts[i] # Empty

\* str.lower() on ASCII
Lower(s) == [i \in 1..Len(s) |-> IF s[i] \in 65..90 THEN s[i] + 32 ELSE s[i]]

\* str < str: lexicographic by code point, a proper prefix is smaller
RECURSIVE StrLess(_, _)
StrLess(a, b) ==
    IF b = Empty THEN FALSE
    ELSE IF a = Empty THEN TRUE
    ELSE IF a[1] # b[1] THEN a[1] < b[1]
    ELSE StrLess(Tail(a), Tail(b))

IsDigit(c) == c \in 48..57

RECURSIVE DigitsVal(_, _)
DigitsVal(s, acc) ==
    IF s = Empty THEN acc ELSE DigitsVal(Tail(s), acc * 10 + (s[1] - 48))

AllDigits(s) == s # Empty /\ \A i \in 1..Len(s) : IsDigit(s[i])

Unsigned(s) == IF s # Empty /\ s[1] \in {43, 45} THEN Tail(s) ELSE s
Sign(s) == IF s # Empty /\ s[1] = 45 THEN -1 ELSE 1

\* int(s) for an optional sign followed by ASCII digits; anything else
\* raises ValueError (ok = FALSE)
ParseInt(s) ==
    LET body == Unsigned(s)
    IN  IF AllDigits(body) THEN [ok |-> TRUE, val |-> Sign(s) * DigitsVal(body, 0)]
        ELSE [ok |-> FALSE, val |-> 0]

DotAt(s) == IF \E i \in 1..Len(s) : s[i] = 46
            THEN CHOOSE i \in 1..Len(s) : s[i] = 46 /\ \A j \in 1..(i - 1) : s[j] # 46
            ELSE 0

\* float(s) for [sign] digits ["." [digit]], [sign] "." digit, [sign] "nan",
\* [sign] "inf"; anything else drawn by the model raises ValueError
\* (kind = "error").
\* The value of a number is in tenths.
ParseFloat(s) ==
    LET body == Unsigned(s)
        d == DotAt(body)
        ip == IF d = 0 THEN body ELSE SubSeq(body, 1, d - 1)
        fp == IF d = 0 THEN Empty ELSE SubSeq(body, d + 1, Len(body))
    IN  IF Lower(body) = <<110, 97, 110>> THEN [kind |-> "nan", val |-> 0]
        ELSE IF Lower(body) = <<105, 110, 102>> THEN [kind |-> "inf", val |-> Sign(s)]
        ELSE IF \/ AllDigits(ip) /\ (fp = Empty \/ (Len(fp) = 1 /\ AllDigits(fp)))
                \/ ip = Empty /\ Len(fp) = 1 /\ AllDigits(fp)
             THEN [kind |-> "num",
                   val |-> Sign(s) * (DigitsVal(ip, 0) * 10 + DigitsVal(fp, 0))]
        ELSE [kind |-> "error", val |-> 0]

\* ----------------------------------------------------------------- state
ZeroStats ==
    [movies_loaded |-> 0, movies_skipped_malformed |-> 0,
     movies_skipped_duplicate |-> 0, ratings_loaded |-> 0,
     ratings_skipped_malformed |-> 0, ratings_skipped_unknown_movie |-> 0,
     ratings_skipped_nonnumeric |-> 0, ratings_skipped_out_of_range |-> 0,
     ratings_skipped_duplicate_user_movie |-> 0, ratings_skipped_empty |-> 0,
     movies_skipped_empty |-> 0]

EmptyMap == [x \in {} |-> 0]

EmptyState ==
    [movies_by_id |-> EmptyMap, movies_by_name |-> EmptyMap,
     genre_lookup |-> EmptyMap, ratings |-> EmptyMap, load_stats |-> ZeroStats]

Movie(mid, name, genre) == [movie_id |-> mid, name_with_year |-> name, genre |-> genre]

Bump(st, counter) ==
    [st EXCEPT !.load_stats = [@ EXCEPT ![counter] = @ + 1]]

Put(f, k, v) == [x \in DOMAIN f \cup {k} |-> IF x = k THEN v ELSE f[x]]

\* ------------------------------------------------------------ load_movies
\* a reload that keeps the ratings
ClearForReload_KeepRatings(st) == [EmptyState EXCEPT !.ratings = st.ratings]

ClearForReload(st) == EmptyState

TooLong(line) == StrippedLen(line) > MaxLineLen

\* a duplicate check by id alone
IsDuplicateMovie_IdOnly(st, mid, name) == mid \in DOMAIN st.movies_by_id

IsDuplicateMovie(st, mid, name) ==
    mid \in DOMAIN st.movies_by_id \/ name \in DOMAIN st.movies_by_name

RegisterGenre(lookup, genre) ==
    LET lkey == Lower(genre)
    IN  IF lkey \notin DOMAIN lookup THEN Put(lookup, lkey, genre) ELSE lookup

StoreMovie(st, mid, name, genre) ==
    Bump([st EXCEPT !.movies_by_id = Put(@, mid, Movie(mid, name, genre)),
                    !.movies_by_name = Put(@, name, mid),
                    !.genre_lookup = RegisterGenre(@, genre)],
         "movies_loaded")

\* a duplicate line that still registers its genre
MovieLine_DupRegistersGenre(st, line) ==
    IF StrippedLen(line) = 0 THEN Bump(st, "movies_skipped_empty")
    ELSE LET parts == Parts(line)
         IN  IF Len(parts) # 3 THEN Bump(st, "movies_skipped_malformed")
             ELSE IF ~AllParts(parts) THEN Bump(st, "movies_skipped_malformed")
             ELSE IF TooLong(line) THEN Bump(st, "movies_skipped_malformed")
             ELSE LET genre == parts[1]
                      mid == ParseInt(parts[2])
                      name == parts[3]
                  IN  IF ~mid.ok THEN Bump(st, "movies_skipped_malformed")
                      ELSE IF IsDuplicateMovie(st, mid.val, name)
                           THEN Bump([st EXCEPT !.genre_lookup = RegisterGenre(@, genre)],
                                     "movies_skipped_duplicate")
                      ELSE StoreMovie(st, mid.val, name, genre)

\* the body of the loop of load_movies for one raw line
MovieLine(st, line) ==
    IF StrippedLen(line) = 0 THEN Bump(st, "movies_skipped_empty")
    ELSE LET parts == Parts(line)
         IN  IF Len(parts) # 3 THEN Bump(st, "movies_skipped_malformed")
             ELSE IF ~AllParts(parts) THEN Bump(st, "movies_skipped_malformed")
             ELSE IF TooLong(line) THEN Bump(st, "movies_skipped_malformed")
             ELSE LET genre == parts[1]
                      mid == ParseInt(parts[2])
                      name == parts[3]
                  IN  IF ~mid.ok THEN Bump(st, "movies_skipped_malformed")
                      ELSE IF IsDuplicateMovie(st, mid.val, name)
                           THEN Bump(st, "movies_skipped_duplicate")
                      ELSE StoreMovie(st, mid.val, name, genre)

RECURSIVE MovieLines(_, _, _)
MovieLines(st, lines, i) ==
    IF i > Len(lines) THEN st ELSE MovieLines(MovieLine(st, lines[i]), lines, i + 1)

\* ----------------------------------------------------------- load_ratings
\* a range check without the upper end
InRange_NoUpper(r) == r.kind = "num" /\ 0 <= r.val

InRange(r) == r.kind = "num" /\ 0 <= r.val /\ r.val <= 50

\* no duplicate check: a later line overwrites
IsDuplicateRating_Never(st, key) == FALSE

IsDuplicateRating(st, key) == key \in DOMAIN st.ratings

\* a stored rating that is not counted
StoreRating_NoBump(st, key, rating) == [st EXCEPT !.ratings = Put(@, key, rating)]

StoreRating(st, key, rating) ==
    Bump([st EXCEPT !.ratings = Put(@, key, rating)], "ratings_loaded")

\* the loop body with the numeric check ahead of the catalog lookup
RatingLine_NumericFirst(st, line) ==
    IF StrippedLen(line) = 0 THEN Bump(st, "ratings_skipped_empty")
    ELSE LET parts == Parts(line)
         IN  IF Len(parts) # 3 THEN Bump(st, "ratings_skipped_malformed")
             ELSE IF ~AllParts(parts) THEN Bump(st, "ratings_skipped_malformed")
             ELSE IF TooLong(line) THEN Bump(st, "ratings_skipped_malformed")
             ELSE LET name == parts[1]
                      rating == ParseFloat(parts[2])
                      user_id == parts[3]
                  IN  IF rating.kind = "error"
                      THEN Bump(st, "ratings_skipped_nonnumeric")
                      ELSE IF name \notin DOMAIN st.movies_by_name
                           THEN Bump(st, "ratings_skipped_unknown_movie")
                      ELSE IF ~InRange(rating)
                           THEN Bump(st, "ratings_skipped_out_of_range")
                      ELSE LET key == <<st.movies_by_name[name], user_id>>
                           IN  IF IsDuplicateRating(st, key)
                               THEN Bump(st, "ratings_skipped_duplicate_user_movie")
                               ELSE StoreRating(st, key, rating.val)

\* the body of the loop of load_ratings for one raw line
RatingLine(st, line) ==
    IF StrippedLen(line) = 0 THEN Bump(st, "ratings_skipped_empty")
    ELSE LET parts == Parts(line)
         IN  IF Len(parts) # 3 THEN Bump(st, "ratings_skipped_malformed")
             ELSE IF ~AllParts(parts) THEN Bump(st, "ratings_skipped_malformed")
             ELSE IF TooLong(line) THEN Bump(st, "ratings_skipped_malformed")
             ELSE LET name == parts[1]
                      rating == ParseFloat(parts[2])
                      user_id == parts[3]
                  IN  IF name \notin DOMAIN st.movies_by_name
                      THEN Bump(st, "ratings_skipped_unknown_movie")
                      ELSE IF rating.kind = "error"
                           THEN Bump(st, "ratings_skipped_nonnumeric")
                      ELSE IF ~InRange(rating)
                           THEN Bump(st, "ratings_skipped_out_of_range")
                      ELSE LET key == <<st.movies_by_name[name], user_id>>
                           IN  IF IsDuplicateRating(st, key)
                               THEN Bump(st, "ratings_skipped_duplicate_user_movie")
                               ELSE StoreRating(st, key, rating.val)

RECURSIVE RatingLines(_, _, _)
RatingLines(st, lines, i) ==
    IF i > Len(lines) THEN st ELSE RatingLines(RatingLine(st, lines[i]), lines, i + 1)

\* ----------------------------------------------------------------- engine
\* The queries read the current state; they are operators over the
\* variables.  A dict is a function here, so the order in which the code
\* meets the items before sorting is not kept: every sort key below ends in
\* a component that is unique among the items sorted, so the sorted list
\* does not depend on that order.
RECURSIVE SumOf(_, _)
SumOf(f, S) ==
    IF S = {} THEN 0
    ELSE LET x == CHOOSE y \in S : TRUE IN f[x] + SumOf(f, S \ {x})

RatedMids == { key[1] : key \in DOMAIN ratings }

\* mid -> (sum, count) over the ratings of the movie
movie_aggregate ==
    [mid \in RatedMids |->
        LET keys == { key \in DOMAIN ratings : key[1] = mid }
        IN  [sum |-> SumOf(ratings, keys), count |-> Cardinality(keys)]]

\* mid -> (avg, count); avg = sum / count is kept as the pair
movie_stats ==
    LET sums_counts == movie_aggregate
    IN  [mid \in { m \in DOMAIN sums_counts : sums_counts[m].count > 0 } |-> sums_counts[mid]]

Row(mid) ==
    LET m == movies_by_id[mid]
        st == movie_stats[mid]
    IN  [movie_id |-> mid, name_with_year |-> m.name_with_year,
         sum |-> st.sum, count |-> st.count, genre |-> m.genre]

\* a sort key without the count: (-avg, name, id)
MovieKeyLess_NoCount(x, y) ==
    IF x.sum * y.count # y.sum * x.count THEN x.sum * y.count > y.sum * x.count
    ELSE IF x.name_with_year # y.name_with_year
         THEN StrLess(x.name_with_year, y.name_with_year)
    ELSE x.movie_id < y.movie_id

\* x sorts before y under key (-avg, -count, name, id)
MovieKeyLess(x, y) ==
    IF x.sum * y.count # y.sum * x.count THEN x.sum * y.count > y.sum * x.count
    ELSE IF x.count # y.count THEN x.count > y.count
    ELSE IF x.name_with_year # y.name_with_year
         THEN StrLess(x.name_with_year, y.name_with_year)
    ELSE x.movie_id < y.movie_id

\* a sort key with the average ascending: (avg, -count, genre)
GenreKeyLess_AvgAscending(x, y) ==
    IF x.sum * y.count # y.sum * x.count THEN x.sum * y.count < y.sum * x.count
    ELSE IF x.count # y.count THEN x.count > y.count
    ELSE StrLess(x.genre, y.genre)

\* x sorts before y under key (-avg, -count, genre)
GenreKeyLess(x, y) ==
    IF x.sum * y.count # y.sum * x.count THEN x.sum * y.count > y.sum * x.count
    ELSE IF x.count # y.count THEN x.count > y.count
    ELSE StrLess(x.genre, y.genre)

\* list.sort(key=...): a stable insertion of each item after the items that
\* do not sort after it
RECURSIVE InsertMovie(_, _)
InsertMovie(x, sorted) ==
    IF sorted = << >> THEN <<x>>
    ELSE IF MovieKeyLess(x, sorted[1]) THEN <<x>> \o sorted
    ELSE <<sorted[1]>> \o InsertMovie(x, Tail(sorted))

RECURSIVE SortMovies(_)
SortMovies(S) ==
    IF S = {} THEN << >>
    ELSE LET x == CHOOSE y \in S : TRUE IN InsertMovie(x, SortMovies(S \ {x}))

RECURSIVE InsertGenre(_, _)
InsertGenre(x, sorted) ==
    IF sorted = << >> THEN <<x>>
    ELSE IF GenreKeyLess(x, sorted[1]) THEN <<x>> \o sorted
    ELSE <<sorted[1]>> \o InsertGenre(x, Tail(sorted))

RECURSIVE SortGenres(_)
SortGenres(S) ==
    IF S = {} THEN << >>
    ELSE LET x == CHOOSE y \in S : TRUE IN InsertGenre(x, SortGenres(S \ {x}))

Max0(n) == IF n > 0 THEN n ELSE 0

\* seq[: max(0, n)]
Take(seq, n) == SubSeq(seq, 1, IF Max0(n) < Len(seq) THEN Max0(n) ELSE Len(seq))

top_n_movies(n) ==
    Take(SortMovies({ Row(mid) : mid \in DOMAIN movie_stats }), n)

\* the registry looked up with the query as typed
top_n_movies_in_genre_NoFold(genre_query, n) ==
    IF DOMAIN genre_lookup = {} THEN << >>
    ELSE LET gkey == genre_query
         IN  IF gkey \notin DOMAIN genre_lookup THEN << >>
             ELSE LET genre == genre_lookup[gkey]
                      items == { Row(mid) : mid \in
                                    { m \in DOMAIN movie_stats : movies_by_id[m].genre = genre } }
                  IN  Take(SortMovies(items), n)

top_n_movies_in_genre(genre_query, n) ==
    IF DOMAIN genre_lookup = {} THEN << >>
    ELSE LET gkey == Lower(genre_query)
         IN  IF gkey \notin DOMAIN genre_lookup THEN << >>
             ELSE LET genre == genre_lookup[gkey]
                      items == { Row(mid) : mid \in
                                    { m \in DOMAIN movie_stats : movies_by_id[m].genre = genre } }
                  IN  Take(SortMovies(items), n)

\* genre -> average of the per-movie averages, with the number of movies.
\* The sum of the averages s_m / c_m is kept over the common denominator
\* Scale, the product of the counts a movie can have in this model.
RECURSIVE Fact(_)
Fact(n) == IF n <= 1 THEN 1 ELSE n * Fact(n - 1)

Scale == Fact(MaxRatingLines + 1)

\* the average of all ratings of the movie's genre in place of the movie's
\* own average: the genre row then holds the rating-weighted mean
AvgScaled_Weighted(mid) ==
    LET keys == { key \in DOMAIN ratings :
                    movies_by_id[key[1]].genre = movies_by_id[mid].genre }
    IN  (SumOf(ratings, keys) * Scale) \div Cardinality(keys)

AvgScaled(mid) == (movie_stats[mid].sum * Scale) \div movie_stats[mid].count

top_n_genres(n) ==
    LET stats == movie_stats
        genres == { movies_by_id[mid].genre : mid \in DOMAIN stats }
        row(g) == LET mids == { mid \in DOMAIN stats : movies_by_id[mid].genre = g }
                  IN  [genre |-> g,
                       sum |-> SumOf([mid \in mids |-> AvgScaled(mid)], mids),
                       count |-> Cardinality(mids)]
    IN  Take(SortGenres({ row(g) : g \in genres }), n)

\* None is the row of count 0
NoneRow == [genre |-> Empty, sum |-> 0, count |-> 0]

\* the user's ratings found without regard to the case of the user id
user_top_genre_FoldCase(user_id) ==
    LET mine == { key \in DOMAIN ratings : Lower(key[2]) = Lower(user_id) }
        genres == { movies_by_id[key[1]].genre : key \in mine }
        row(g) == LET keys == { key \in mine : movies_by_id[key[1]].genre = g }
                  IN  [genre |-> g, sum |-> SumOf(ratings, keys), count |-> Cardinality(keys)]
        rows == SortGenres({ row(g) : g \in genres })
    IN  IF rows = << >> THEN NoneRow ELSE rows[1]

user_top_genre(user_id) ==
    LET mine == { key \in DOMAIN ratings : key[2] = user_id }
        genres == { movies_by_id[key[1]].genre : key \in mine }
        row(g) == LET keys == { key \in mine : movies_by_id[key[1]].genre = g }
                  IN  [genre |-> g, sum |-> SumOf(ratings, keys), count |-> Cardinality(keys)]
        rows == SortGenres({ row(g) : g \in genres })
    IN  IF rows = << >> THEN NoneRow ELSE rows[1]

\* no movie counts as rated
rated_mids_None(user_id) == {}

rated_mids(user_id) == { key[1] : key \in { k \in DOMAIN ratings : k[2] = user_id } }

recommend_movies(user_id, k) ==
    LET top == user_top_genre(user_id)
    IN  IF top = NoneRow THEN << >>
        ELSE LET popular_in_genre == top_n_movies_in_genre(top.genre, FetchLimit)
                 mine == rated_mids(user_id)
                 keep(row) == row.movie_id \notin mine
             IN  Take(SelectSeq(popular_in_genre, keep), k)

\* sorted(self.genre_lookup.values())
RECURSIVE InsertStr(_, _)
InsertStr(x, sorted) ==
    IF sorted = << >> THEN <<x>>
    ELSE IF StrLess(x, sorted[1]) THEN <<x>> \o sorted
    ELSE <<sorted[1]>> \o InsertStr(x, Tail(sorted))

RECURSIVE SortStrs(_)
SortStrs(S) ==
    IF S = {} THEN << >>
    ELSE LET x == CHOOSE y \in S : TRUE IN InsertStr(x, SortStrs(S \ {x}))

available_genres == SortStrs({ genre_lookup[k] : k \in DOMAIN genre_lookup })

\* ----------------------------------------------------------------- inputs
\* code points: A 65, B 66, C 67, D 68, S 83, f 102, s 115, r 114, u 117,
\* v 118, x 120, digits 48..57, "." 46, "-" 45
GSf == <<83, 102>>
Gsf == <<115, 102>>
GSF == <<83, 70>>
GDr == <<68, 114>>
NA == <<65>>
NB == <<66>>
NC == <<67>>
ND == <<68>>
U1 == <<117>>
U2 == <<118>>

Plain(a, b, c) == <<F(0, a, 0), F(0, b, 0), F(0, c, 0)>>

\* lines of a movies file: two records of one genre and a third of the same
\* genre in another casing, padded to more than MaxLineLen characters by
\* leading whitespace; a record of another genre colliding with the first
\* by id and with the second by name; a record whose id is no integer; a
\* blank line
MovieLineSet ==
    { Plain(GSf, <<49>>, NA),                                   \* Sf|1|A
      Plain(GSf, <<50>>, NB),                                   \* Sf|2|B
      <<F(MaxLineLen, Gsf, 0), F(0, <<51>>, 0), F(0, NC, 1)>>,  \* sf|3|C, padded
      Plain(GDr, <<48, 49>>, NB),                               \* Dr|01|B
      Plain(GSf, <<120>>, NC),                                  \* Sf|x|C
      <<F(1, Empty, 0)>> }                                      \* blank line

\* lines of a ratings file: accepted ratings, a second value for the pair
\* (A, u), a rating padded to more than MaxLineLen characters by leading
\* whitespace, an out-of-range and a non-numeric rating, a line of two
\* fields and a blank line
RatingLineSet ==
    { Plain(NA, <<52>>, U1),                                    \* A|4|u
      Plain(NA, <<53>>, U1),                                    \* A|5|u
      Plain(NB, <<52>>, U1),                                    \* B|4|u
      Plain(NB, <<52>>, U2),                                    \* B|4|v
      <<F(MaxLineLen, NC, 0), F(0, <<53>>, 0), F(0, U2, 1)>>,   \* C|5|v, padded
      Plain(NC, <<54, 46, 48>>, U2),                            \* C|6.0|v
      Plain(NB, <<120>>, U2),                                   \* B|x|v
      <<F(0, NA, 0), F(0, <<52>>, 0)>>,                         \* A|4
      <<F(0, Empty, 2)>> }                                      \* blank line

NoSource == [exists |-> FALSE, lines |-> << >>, failed |-> FALSE]

Files(S) == UNION { [1..n -> S] : n \in 0..MaxLines }

\* a source: missing, or a file of at most MaxLines lines whose read yields
\* `lines` and then ends, or raises OSError before the last line of the file
Sources(S) ==
    { NoSource } \cup
    { [exists |-> TRUE, lines |-> l, failed |-> FALSE] : l \in Files(S) } \cup
    { [exists |-> TRUE, lines |-> l, failed |-> TRUE] :
          l \in { x \in Files(S) : Len(x) < MaxLines } }

State ==
    [movies_by_id |-> movies_by_id, movies_by_name |-> movies_by_name,
     genre_lookup |-> genre_lookup, ratings |-> ratings, load_stats |-> load_stats]

Becomes(st) ==
    /\ movies_by_id' = st.movies_by_id
    /\ movies_by_name' = st.movies_by_name
    /\ genre_lookup' = st.genre_lookup
    /\ ratings' = st.ratings
    /\ load_stats' = st.load_stats

RatingLinesSeen ==
    load_stats.ratings_loaded + load_stats.ratings_skipped_malformed
    + load_stats.ratings_skipped_unknown_movie + load_stats.ratings_skipped_nonnumeric
    + load_stats.ratings_skipped_out_of_range
    + load_stats.ratings_skipped_duplicate_user_movie + load_stats.ratings_skipped_empty

\* no bulk genre
NoBulk == [ranked |-> 0, mine |-> 0, k |-> 0, recs |-> << >>, called |-> FALSE]

\* ---------------------------------------------------------------- actions
Init ==
    /\ movies_by_id = EmptyMap
    /\ movies_by_name = EmptyMap
    /\ genre_lookup = EmptyMap
    /\ ratings = EmptyMap
    /\ load_stats = ZeroStats
    /\ call = [op |-> "init", src |-> NoSource]
    /\ bulk = NoBulk

\* load_movies(path): clear everything, then read the file if it exists;
\* an OSError raised by the read is caught after the lines already read.
\* (The first conjunct bounds the runs: a catalog is reloaded before
\* MaxRatingLines rating lines have been read against it.)
load_movies(src) ==
    /\ RatingLinesSeen < MaxRatingLines
    /\ Becomes(IF src.exists THEN MovieLines(ClearForReload(State), src.lines, 1)
                ELSE ClearForReload(State))
    /\ call' = [op |-> "load_movies", src |-> src]
    /\ UNCHANGED bulk

\* a rating load that starts from fresh counters, as a catalog load does
load_ratings_ResetStats(src) ==
    /\ RatingLinesSeen + Len(src.lines) <= MaxRatingLines
    /\ Becomes(IF src.exists
                THEN RatingLines([State EXCEPT !.load_stats = ZeroStats], src.lines, 1)
                ELSE State)
    /\ call' = [op |-> "load_ratings", src |-> src]
    /\ UNCHANGED bulk

\* load_ratings(path): nothing if the file is missing, else read it
load_ratings(src) ==
    /\ RatingLinesSeen + Len(src.lines) <= MaxRatingLines
    /\ Becomes(IF src.exists THEN RatingLines(State, src.lines, 1) ELSE State)
    /\ call' = [op |-> "load_ratings", src |-> src]
    /\ UNCHANGED bulk

reset_all ==
    /\ Becomes(EmptyState)
    /\ call' = [op |-> "reset_all", src |-> NoSource]
    /\ UNCHANGED bulk

LoadMovies == \E src \in Sources(MovieLineSet) : load_movies(src)
LoadRatings == \E src \in Sources(RatingLineSet) : load_ratings(src)

Next == LoadMovies \/ LoadRatings \/ reset_all

Spec == Init /\ [][Next]_vars

\* ------------------------------------------------------------ bulk genre
\* A state whose catalog has one genre label with bulk.ranked rated movies.
\* The movies are numbered by their place in the popularity order, so that
\* the sorted items of top_n_movies_in_genre are the ids 1..bulk.ranked, and
\* the user has rated the movies 1..bulk.mine, which makes the genre the
\* user's top genre.
BulkRanking == [i \in 1..bulk.ranked |-> i]

\* recommend_movies on the bulk genre: the ranking cut at the fetch limit,
\* without the movies the user rated, cut at k
recommend_movies_bulk(k) ==
    LET popular_in_genre == Take(BulkRanking, FetchLimit)
        rated == 1..bulk.mine
        keep(mid) == mid \notin rated
    IN  Take(SelectSeq(popular_in_genre, keep), k)

BulkSizes == (FetchLimit - BulkSlack)..(FetchLimit + BulkSlack)

BulkInputs ==
    { [ranked |-> m, mine |-> r, k |-> 0, recs |-> << >>, called |-> FALSE] :
          m \in BulkSizes, r \in {1} \cup BulkSizes }

InitBulk ==
    /\ movies_by_id = EmptyMap
    /\ movies_by_name = EmptyMap
    /\ genre_lookup = EmptyMap
    /\ ratings = EmptyMap
    /\ load_stats = ZeroStats
    /\ call = [op |-> "init", src |-> NoSource]
    /\ bulk \in { b \in BulkInputs : b.mine <= b.ranked }

Recommend ==
    /\ \E k \in (-1)..MaxN :
          bulk' = [bulk EXCEPT !.k = k, !.recs = recommend_movies_bulk(k), !.called = TRUE]
    /\ UNCHANGED <<movies_by_id, movies_by_name, genre_lookup, ratings, load_stats, call>>

NextBulk == Recommend

SpecBulk == InitBulk /\ [][NextBulk]_vars

\* ----------------------------------------------------------------- claims
UserIds == {U1, U2, <<119>>}
Ns == (-1)..MaxN
GenreQueries == {GSf, Gsf, GSF, GDr, <<88>>}

RatingCounters ==
    {"ratings_loaded", "ratings_skipped_malformed", "ratings_skipped_unknown_movie",
     "ratings_skipped_nonnumeric", "ratings_skipped_out_of_range",
     "ratings_skipped_duplicate_user_movie", "ratings_skipped_empty"}

\* the record a line of a movies file describes, when it has three fields
\* and an integer id
Describes(line, m) ==
    LET parts == Parts(line)
    IN  /\ Len(parts) = 3
        /\ ParseInt(parts[2]).ok
        /\ m = Movie(ParseInt(parts[2]).val, parts[3], parts[1])

\* C1: right after a load_movies call, whatever the source held, the rating
\* set is empty, every rating counter is 0, and the catalog, the name index
\* and the genre registry hold only records of lines of this call.
C1_ReloadClearsRatings ==
    call.op = "load_movies" =>
        /\ DOMAIN ratings = {}
        /\ \A c \in RatingCounters : load_stats[c] = 0
        /\ \A mid \in DOMAIN movies_by_id :
              \E i \in 1..Len(call.src.lines) : Describes(call.src.lines[i], movies_by_id[mid])
        /\ \A name \in DOMAIN movies_by_name :
              \E i \in 1..Len(call.src.lines) : Parts(call.src.lines[i])[Len(call.src.lines[i])] = name
        /\ \A k \in DOMAIN genre_lookup :
              \E i \in 1..Len(call.src.lines) : Parts(call.src.lines[i])[1] = genre_lookup[k]

\* a reload that accepted one record and skipped a line
C1_Witness ==
    /\ call.op = "load_movies"
    /\ Cardinality(DOMAIN movies_by_id) = 1
    /\ Len(call.src.lines) = 2

\* C2: every stored rating refers to a movie of the current catalog and its
\* value lies in [0.0, 5.0].
C2_RatingsValid ==
    \A key \in DOMAIN ratings :
        /\ key[1] \in DOMAIN movies_by_id
        /\ 0 <= ratings[key] /\ ratings[key] <= 50

\* ratings stored, one of them 5.0, with an out-of-range line skipped
C2_Witness ==
    /\ \E key \in DOMAIN ratings : ratings[key] = 50
    /\ load_stats.ratings_skipped_out_of_range > 0

\* C3: no two records share an id or a name, and the name index and the id
\* index describe the same records.
C3_CatalogInjective ==
    /\ \A i, j \in DOMAIN movies_by_id :
          movies_by_id[i].name_with_year = movies_by_id[j].name_with_year => i = j
    /\ \A i \in DOMAIN movies_by_id :
          /\ movies_by_id[i].movie_id = i
          /\ movies_by_id[i].name_with_year \in DOMAIN movies_by_name
          /\ movies_by_name[movies_by_id[i].name_with_year] = i
    /\ \A name \in DOMAIN movies_by_name :
          /\ movies_by_name[name] \in DOMAIN movies_by_id
          /\ movies_by_id[movies_by_name[name]].name_with_year = name

\* a catalog from which a line with a new id and a taken name was kept out
C3_Witness ==
    /\ DOMAIN movies_by_id = {2}
    /\ load_stats.movies_skipped_duplicate > 0

\* a line of a ratings file that passes every check but the duplicate
\* check, against a name index
ValidRating(line, names) ==
    LET parts == Parts(line)
    IN  /\ StrippedLen(line) # 0
        /\ Len(parts) = 3
        /\ AllParts(parts)
        /\ ~TooLong(line)
        /\ parts[1] \in DOMAIN names
        /\ InRange(ParseFloat(parts[2]))

KeyOf(line, names) == <<names[Parts(line)[1]], Parts(line)[3]>>
ValueOf(line) == ParseFloat(Parts(line)[2]).val

\* C4: in a load_ratings call a stored pair keeps its value; a pair new in
\* this call gets the value of its first valid line; every valid line for a
\* pair already stored counts as a duplicate skip and not as loaded.
C4_FirstWriteWins ==
    [][ call'.op = "load_ratings" =>
          LET lines == call'.src.lines
              valid == { i \in 1..Len(lines) : ValidRating(lines[i], movies_by_name) }
              first(i) == CHOOSE j \in valid :
                             /\ KeyOf(lines[j], movies_by_name) = KeyOf(lines[i], movies_by_name)
                             /\ \A h \in valid :
                                   KeyOf(lines[h], movies_by_name) = KeyOf(lines[i], movies_by_name)
                                   => j <= h
              newKeys == { KeyOf(lines[i], movies_by_name) : i \in valid } \ DOMAIN ratings
          IN  /\ \A key \in DOMAIN ratings :
                    key \in DOMAIN ratings' /\ ratings'[key] = ratings[key]
              /\ \A i \in valid :
                    LET key == KeyOf(lines[i], movies_by_name)
                    IN  /\ key \in DOMAIN ratings'
                        /\ key \notin DOMAIN ratings
                            => ratings'[key] = ValueOf(lines[first(i)])
              /\ load_stats'.ratings_skipped_duplicate_user_movie
                    = load_stats.ratings_skipped_duplicate_user_movie
                      + Cardinality(valid) - Cardinality(newKeys)
              /\ load_stats'.ratings_loaded = load_stats.ratings_loaded + Cardinality(newKeys)
      ]_vars

\* a valid line of the last call carries another value than the one stored
\* for its pair, and was counted as a duplicate
C4_Witness ==
    /\ call.op = "load_ratings"
    /\ load_stats.ratings_skipped_duplicate_user_movie > 0
    /\ \E i \in 1..Len(call.src.lines) :
          /\ ValidRating(call.src.lines[i], movies_by_name)
          /\ ratings[KeyOf(call.src.lines[i], movies_by_name)] # ValueOf(call.src.lines[i])

\* row x stands rightly before row y: higher average, then higher count,
\* then smaller name, then smaller id
Precedes(x, y) ==
    \/ x.sum * y.count > y.sum * x.count
    \/ /\ x.sum * y.count = y.sum * x.count
       /\ \/ x.count > y.count
          \/ /\ x.count = y.count
             /\ \/ StrLess(x.name_with_year, y.name_with_year)
                \/ /\ x.name_with_year = y.name_with_year
                   /\ x.movie_id <= y.movie_id

Ordered(rows) == \A i \in 1..(Len(rows) - 1) : Precedes(rows[i], rows[i + 1])

\* C5: every adjacent pair of rows of top_n_movies(n) and of
\* top_n_movies_in_genre(q, n) is ordered by higher average, then higher
\* count, then smaller name, then smaller id.
C5_MoviesOrdered ==
    \A n \in Ns :
        /\ Ordered(top_n_movies(n))
        /\ \A q \in GenreQueries : Ordered(top_n_movies_in_genre(q, n))

\* two movies of equal average 4.0, the one with two ratings before the one
\* with one rating although its name is the larger
C5_Witness ==
    /\ Len(top_n_movies(2)) = 2
    /\ LET x == top_n_movies(2)[1]
           y == top_n_movies(2)[2]
       IN  /\ x.sum = 80 /\ x.count = 2
           /\ y.sum = 40 /\ y.count = 1
           /\ StrLess(y.name_with_year, x.name_with_year)

\* C6: recommend_movies(u, k) holds no movie that u has rated.
C6_NoRatedRecommended ==
    \A u \in UserIds : \A k \in Ns :
        LET recs == recommend_movies(u, k)
        IN  \A i \in 1..Len(recs) :
                \A key \in DOMAIN ratings : key[2] = u => key[1] # recs[i].movie_id

\* a user who rated a movie of the top genre is recommended another one
C6_Witness ==
    \E u \in UserIds :
        /\ Len(recommend_movies(u, MaxN)) > 0
        /\ \E key \in DOMAIN ratings :
              /\ key[2] = u
              /\ movies_by_id[key[1]].genre = user_top_genre(u).genre

\* C7: the genre label stored in every record is the canonical label of
\* the registry for its case-folded key, so top_n_movies_in_genre leaves out
\* no rated movie whose genre equals the query case-insensitively.
C7_GenreCanonical ==
    /\ \A mid \in DOMAIN movies_by_id :
          movies_by_id[mid].genre = genre_lookup[Lower(movies_by_id[mid].genre)]
    /\ \A q \in GenreQueries : \A mid \in DOMAIN movie_stats :
          Lower(q) = Lower(movies_by_id[mid].genre)
          => \E i \in 1..Len(top_n_movies_in_genre(q, FetchLimit)) :
                top_n_movies_in_genre(q, FetchLimit)[i].movie_id = mid

\* C8: a load whose read fails part-way leaves nothing of the lines read
\* before the failure: the state is as before the call, or, for
\* load_movies, as cleared.
C8_LoadAtomic ==
    [][ call'.src.failed =>
          \/ UNCHANGED <<movies_by_id, movies_by_name, genre_lookup, ratings, load_stats>>
          \/ /\ call'.op = "load_movies"
             /\ movies_by_id' = EmptyMap /\ movies_by_name' = EmptyMap
             /\ genre_lookup' = EmptyMap /\ ratings' = EmptyMap
             /\ load_stats' = ZeroStats
      ]_vars

\* C9: in both loaders a line of three non-empty fields whose untrimmed
\* length exceeds 2000 is counted as malformed and is not accepted.
C9_OverlongMalformed ==
    [][ call'.op \in {"load_movies", "load_ratings"} =>
          LET lines == call'.src.lines
              over == { i \in 1..Len(lines) :
                          /\ Len(Parts(lines[i])) = 3
                          /\ AllParts(Parts(lines[i]))
                          /\ RawLen(lines[i]) > MaxLineLen }
              base == IF call'.op = "load_movies" THEN ZeroStats ELSE load_stats
              malformed == IF call'.op = "load_movies" THEN "movies_skipped_malformed"
                           ELSE "ratings_skipped_malformed"
              loaded == IF call'.op = "load_movies" THEN "movies_loaded" ELSE "ratings_loaded"
          IN  /\ load_stats'[malformed] - base[malformed] >= Cardinality(over)
              /\ load_stats'[loaded] - base[loaded] <= Len(lines) - Cardinality(over)
      ]_vars

\* the counter of a line of a ratings file: that of the first check that
\* fails in the order empty, malformed, unknown movie, non-numeric,
\* out of range, duplicate; ratings_loaded when none fails
Class(line, names, keys) ==
    LET parts == Parts(line)
    IN  IF StrippedLen(line) = 0 THEN "ratings_skipped_empty"
        ELSE IF Len(parts) # 3 \/ ~AllParts(parts) \/ TooLong(line)
             THEN "ratings_skipped_malformed"
        ELSE IF parts[1] \notin DOMAIN names THEN "ratings_skipped_unknown_movie"
        ELSE IF ParseFloat(parts[2]).kind = "error" THEN "ratings_skipped_nonnumeric"
        ELSE IF ~InRange(ParseFloat(parts[2])) THEN "ratings_skipped_out_of_range"
        ELSE IF KeyOf(line, names) \in keys THEN "ratings_skipped_duplicate_user_movie"
        ELSE "ratings_loaded"

RECURSIVE Classes(_, _, _, _)
Classes(lines, i, names, keys) ==
    IF i > Len(lines) THEN << >>
    ELSE LET c == Class(lines[i], names, keys)
         IN  <<c>> \o Classes(lines, i + 1, names,
                              IF c = "ratings_loaded"
                              THEN keys \cup {KeyOf(lines[i], names)} ELSE keys)

\* C10: every line read by load_ratings increments exactly the counter of
\* its first failing check; the rating set gains the pairs of the accepted
\* lines and is otherwise unchanged.
C10_OneCounterPerLine ==
    [][ call'.op = "load_ratings" =>
          LET lines == call'.src.lines
              cls == Classes(lines, 1, movies_by_name, DOMAIN ratings)
          IN  /\ \A c \in RatingCounters :
                    load_stats'[c] = load_stats[c]
                                     + Cardinality({ i \in 1..Len(lines) : cls[i] = c })
              /\ DOMAIN ratings' =
                    DOMAIN ratings \cup { KeyOf(lines[i], movies_by_name) :
                                             i \in { j \in 1..Len(lines) : cls[j] = "ratings_loaded" } }
              /\ \A key \in DOMAIN ratings : ratings'[key] = ratings[key]
      ]_vars

\* unknown-movie, non-numeric and out-of-range lines were each counted and
\* nothing was stored
C10_Witness ==
    /\ call.op = "load_ratings"
    /\ load_stats.ratings_skipped_unknown_movie > 0
    /\ load_stats.ratings_skipped_nonnumeric > 0
    /\ load_stats.ratings_skipped_out_of_range > 0
    /\ DOMAIN ratings = {}

\* the product of the rating counts of the movies in S
RECURSIVE CountProduct(_)
CountProduct(S) ==
    IF S = {} THEN 1
    ELSE LET m == CHOOSE y \in S : TRUE IN movie_stats[m].count * CountProduct(S \ {m})

\* the rated movies whose record carries the genre label g
RatedOf(g) == { mid \in DOMAIN movie_stats : movies_by_id[mid].genre = g }

\* row.sum / (Scale * row.count) is the mean over the movies of S of the
\* movie averages sum_m / count_m, stated over the denominator CountProduct(S)
IsMeanOfAverages(row, S) ==
    LET P == CountProduct(S)
    IN  row.sum * P * Cardinality(S)
          = Scale * row.count
            * SumOf([m \in S |-> movie_stats[m].sum * (P \div movie_stats[m].count)], S)

\* C11: top_n_genres has one row for each genre label carried by a rated
\* movie and no other row; the row's average is the unweighted mean of the
\* averages of the rated movies of that genre and its count is their number.
C11_GenreAverageOfAverages ==
    LET rows == top_n_genres(Cardinality(DOMAIN movies_by_id))
    IN  /\ \A i \in 1..Len(rows) :
              /\ RatedOf(rows[i].genre) # {}
              /\ rows[i].count = Cardinality(RatedOf(rows[i].genre))
              /\ IsMeanOfAverages(rows[i], RatedOf(rows[i].genre))
              /\ \A j \in 1..Len(rows) : rows[j].genre = rows[i].genre => i = j
        /\ \A mid \in DOMAIN movie_stats :
              \E i \in 1..Len(rows) : rows[i].genre = movies_by_id[mid].genre

\* a genre of two rated movies with one and two ratings, where the mean of
\* the movie averages (4.5) differs from the mean of the ratings (13/3)
C11_Witness ==
    /\ Len(top_n_genres(MaxN)) = 1
    /\ top_n_genres(MaxN)[1].count = 2
    /\ top_n_genres(MaxN)[1].sum = 90 * Scale
    /\ Cardinality(DOMAIN ratings) = 3

\* row x stands rightly before row y: higher average, then higher count,
\* then smaller genre label
GenrePrecedes(x, y) ==
    \/ x.sum * y.count > y.sum * x.count
    \/ /\ x.sum * y.count = y.sum * x.count
       /\ \/ x.count > y.count
          \/ x.count = y.count /\ (StrLess(x.genre, y.genre) \/ x.genre = y.genre)

\* C12: every adjacent pair of rows of top_n_genres(n) is ordered by higher
\* genre average, then higher contributing movie count, then ascending label.
C12_GenresOrdered ==
    \A n \in Ns :
        \A i \in 1..(Len(top_n_genres(n)) - 1) :
            GenrePrecedes(top_n_genres(n)[i], top_n_genres(n)[i + 1])

\* two rows of which the first has the higher average and the larger label
C12_Witness ==
    /\ Len(top_n_genres(2)) = 2
    /\ LET x == top_n_genres(2)[1]
           y == top_n_genres(2)[2]
       IN  /\ x.sum * y.count > y.sum * x.count
           /\ StrLess(y.genre, x.genre)

MovieCounters ==
    {"movies_loaded", "movies_skipped_malformed", "movies_skipped_duplicate",
     "movies_skipped_empty"}

\* C13: a load_ratings call leaves the catalog, the name index, the genre
\* registry and every movies_* counter unchanged and resets no rating
\* counter: each rating counter keeps at least its value of the calls before
\* and together they grow by the number of lines read in this call.
C13_RatingsLoadFrame ==
    [][ call'.op = "load_ratings" =>
          /\ movies_by_id' = movies_by_id
          /\ movies_by_name' = movies_by_name
          /\ genre_lookup' = genre_lookup
          /\ \A c \in MovieCounters : load_stats'[c] = load_stats[c]
          /\ \A c \in RatingCounters : load_stats'[c] >= load_stats[c]
          /\ RatingLinesSeen' = RatingLinesSeen + Len(call'.src.lines)
          /\ DOMAIN ratings \subseteq DOMAIN ratings'
      ]_vars

\* a second load_ratings call against a loaded catalog, whose counters
\* still hold the lines of the call before
C13_Witness ==
    /\ call.op = "load_ratings"
    /\ Len(call.src.lines) > 0
    /\ RatingLinesSeen > Len(call.src.lines)
    /\ load_stats.movies_loaded > 0
    /\ load_stats.movies_skipped_duplicate > 0
    /\ load_stats.ratings_loaded > 0

\* the user ids asked about: the two authors of the rating lines, a
\* stranger, and "U", which differs from the author "u" by case only
UserQueries == UserIds \cup {<<85>>}

Authors(u) == \E key \in DOMAIN ratings : key[2] = u

\* C14: a user id that authors no stored rating (compared exactly, case
\* included) gets None from user_top_genre and the empty sequence from
\* recommend_movies for every k; a user id that authors a stored rating gets
\* a row from user_top_genre.
C14_NoHistory ==
    \A u \in UserQueries :
        /\ ~Authors(u) =>
              /\ user_top_genre(u) = NoneRow
              /\ \A k \in Ns : recommend_movies(u, k) = << >>
        /\ Authors(u) =>
              /\ user_top_genre(u) # NoneRow
              /\ user_top_genre(u).count > 0

\* "u" has a history and a recommendation, while "U" and "w" have none
C14_Witness ==
    /\ Authors(U1)
    /\ ~Authors(<<85>>)
    /\ ~Authors(<<119>>)
    /\ user_top_genre(<<85>>) = NoneRow
    /\ recommend_movies(U1, 1) # << >>
    /\ recommend_movies(<<85>>, 1) = << >>

\* C15: top_n_movies_in_genre gives, for every casing variant of a
\* registered label, the result it gives for the registered label itself,
\* and the empty result for a query whose case-folded form is not a key of
\* the registry.
C15_CasingVariantsAgree ==
    \A q \in GenreQueries : \A n \in Ns :
        IF Lower(q) \in DOMAIN genre_lookup
        THEN top_n_movies_in_genre(q, n)
                = top_n_movies_in_genre(genre_lookup[Lower(q)], n)
        ELSE top_n_movies_in_genre(q, n) = << >>

\* "SF" and "sf" both list the rated movie of the registered label "Sf",
\* and "Dr" lists nothing
C15_Witness ==
    /\ DOMAIN genre_lookup = {Gsf}
    /\ genre_lookup[Gsf] = GSf
    /\ top_n_movies_in_genre(GSF, MaxN) # << >>
    /\ top_n_movies_in_genre(Gsf, MaxN) = top_n_movies_in_genre(GSf, MaxN)
    /\ top_n_movies_in_genre(GDr, MaxN) = << >>

\* C16: recommend_movies(u, k) is the first k entries, in popularity order,
\* of the complete list of rated movies of u's top genre that u has not
\* rated, however many rated movies the genre has.
C16_FirstKOfCompleteList ==
    bulk.called =>
        bulk.recs = Take(SelectSeq(BulkRanking, LAMBDA mid : mid \notin 1..bulk.mine), bulk.k)

\* a line that passes every malformed check of load_movies
WellFormedMovie(line) ==
    /\ StrippedLen(line) > 0
    /\ Len(Parts(line)) = 3
    /\ AllParts(Parts(line))
    /\ ~TooLong(line)
    /\ ParseInt(Parts(line)[2]).ok

IdOf(line) == ParseInt(Parts(line)[2]).val
NameOf(line) == Parts(line)[3]
GenreOf(line) == Parts(line)[1]

\* the lines among the first i that are well-formed and collide, neither by
\* id nor by name, with no accepted line before them
RECURSIVE AcceptedLines(_, _)
AcceptedLines(lines, i) ==
    IF i = 0 THEN {}
    ELSE LET before == AcceptedLines(lines, i - 1)
         IN  IF /\ WellFormedMovie(lines[i])
                /\ \A j \in before : /\ IdOf(lines[j]) # IdOf(lines[i])
                                     /\ NameOf(lines[j]) # NameOf(lines[i])
             THEN before \cup {i}
             ELSE before

\* C17: after load_movies, a well-formed line that collided by id or by
\* name with an accepted line was counted in movies_skipped_duplicate and
\* left nothing else: the records, the name index and the genre registry
\* are those of the accepted lines alone, each record as its own line
\* wrote it.
C17_DuplicateRejectedWhole ==
    (call.op = "load_movies" /\ call.src.exists) =>
        LET lines == call.src.lines
            acc == AcceptedLines(lines, Len(lines))
            dup == { i \in 1..Len(lines) : WellFormedMovie(lines[i]) /\ i \notin acc }
        IN  /\ load_stats.movies_skipped_duplicate = Cardinality(dup)
            /\ load_stats.movies_loaded = Cardinality(acc)
            /\ DOMAIN movies_by_id = { IdOf(lines[i]) : i \in acc }
            /\ DOMAIN movies_by_name = { NameOf(lines[i]) : i \in acc }
            /\ DOMAIN genre_lookup = { Lower(GenreOf(lines[i])) : i \in acc }
            /\ \A i \in acc :
                  /\ movies_by_id[IdOf(lines[i])]
                        = Movie(IdOf(lines[i]), NameOf(lines[i]), GenreOf(lines[i]))
                  /\ movies_by_name[NameOf(lines[i])] = IdOf(lines[i])

\* "Sf|1|A" then "Dr|01|B": the second line collides by id only, and
\* neither its name "B" nor its genre "Dr" was stored
C17_Witness ==
    /\ call.op = "load_movies"
    /\ Len(call.src.lines) = 2
    /\ GenreOf(call.src.lines[2]) = GDr
    /\ load_stats.movies_skipped_duplicate = 1
    /\ DOMAIN movies_by_id = {1}
    /\ DOMAIN movies_by_name = {NA}
    /\ DOMAIN genre_lookup = {Gsf}

\* C18: in every reachable state movies_loaded is the number of records of
\* the catalog and ratings_loaded is the number of stored ratings, the two
\* totals summary() prints beside the counters.
C18_LoadedCountersAgree ==
    /\ load_stats.movies_loaded = Cardinality(DOMAIN movies_by_id)
    /\ load_stats.ratings_loaded = Cardinality(DOMAIN ratings)

\* two records and two ratings are stored after a duplicate movie line or
\* a skipped rating line
C18_Witness ==
    /\ Cardinality(DOMAIN movies_by_id) = 2
    /\ Cardinality(DOMAIN ratings) = 2
    /\ RatingLinesSeen > load_stats.ratings_loaded

Labels(rows) == { rows[i].genre : i \in 1..Len(rows) }

Registered == { available_genres[i] : i \in 1..Len(available_genres) }

\* C19: every genre label of a row of top_n_genres, and every label
\* returned by user_top_genre, is one of the labels of available_genres,
\* and no two rows of top_n_genres have labels that are equal up to case.
C19_LabelsRegistered ==
    LET rows == top_n_genres(Cardinality(DOMAIN movies_by_id))
    IN  /\ Labels(rows) \subseteq Registered
        /\ \A u \in UserIds :
              user_top_genre(u) # NoneRow => user_top_genre(u).genre \in Registered
        /\ \A i, j \in 1..Len(rows) :
              Lower(rows[i].genre) = Lower(rows[j].genre) => i = j

====
